---- MODULE Spec2Model ----
(***************************************************************************)
(* State-machine model of the helper bot in src/main_v3_7.py: the roles,   *)
(* tasks, pending, board and reports stores, the per-user conversation     *)
(* data, and the dispatch of one inbound update to the first matching      *)
(* handler in registration order (main, lines 658-693).                    *)
(*                                                                         *)
(* Strings that the code inspects (handles, message texts, task names)     *)
(* are sequences of one-character strings, so that lower(), lstrip(),      *)
(* strip() and int() are computed and not assumed.                         *)
(* A username of None and the empty username are the same value <<>>:      *)
(* every place of the code that reads it tests `not username` or uses      *)
(* `username or ""`.                                                       *)
(***************************************************************************)
EXTENDS Integers, Sequences, FiniteSets, TLC

VARIABLES
    config_handle,   \* config.SUPERADMIN_USERNAME as written in config.py
    roles,           \* roles.json: uid -> profile (a dict: DOMAIN = stored uids)
    tasks,           \* tasks.json["tasks"]: list of task names
    pending,         \* pending_tasks.json["pending"]: list of proposals
    reports_csv,     \* reports.csv: list of rows (<<>> = file missing or empty)
    sheet,           \* rows of the remote "Reports" worksheet
    board,           \* board.json["posts"]: list of posts, newest first
    user_data,       \* context.user_data per user
    report_conv,     \* state kept by the report ConversationHandler per user
    post_conv,       \* state kept by the announcement ConversationHandler per user
    update,          \* the inbound update dispatched last
    handler,         \* the callback that took it ("none": no handler matched)
    sent,            \* outbound messages produced while handling it, in order
    returned,        \* per user: the state the last report callback returned
    shown,           \* the last listing sent by /pending_tasks: to whom, and the queue listed
    react_pc,        \* per user: position inside react_cb
    react_req,       \* per user: the (post id, emoji) of the react_cb in progress
    exports,         \* month keys for which monthly_<key>.xlsx has been written
    io               \* what the ledger and mirror appends of the latest
                     \* report_count_received did

vars == <<config_handle, roles, tasks, pending, reports_csv, sheet, board,
          user_data, report_conv, post_conv, update, handler, sent, returned,
          shown, react_pc, react_req, exports, io>>

-----------------------------------------------------------------------------
(* Bounds of the model *)

NumUsers == 2
MaxPending == 3
MaxPosts == 3
MaxRows == 3       \* entries of a persisted ledger

Users == 1..NumUsers

-----------------------------------------------------------------------------
(* Strings *)

\* The handles tried: none, the letters in either case, with one or two
\* leading markers, with a marker inside or at the end, and other words
Handles ==
    { <<>>, <<"z">>, <<"Z">>, <<"b">>, <<"@">>, <<"@", "z">>, <<"@", "Z">>,
      <<"@", "b">>, <<"@", "@", "Z">>, <<"z", "@">>, <<"z", "b">>, <<"@", "@">> }

\* str.lower() on the characters of the model
lower(s) == [i \in 1..Len(s) |-> IF s[i] = "Z" THEN "z" ELSE s[i]]

\* str.lstrip("@"): drops every leading "@"
RECURSIVE lstrip(_)
lstrip(s) == IF s # <<>> /\ Head(s) = "@" THEN lstrip(Tail(s)) ELSE s

\* line 59: the configured handle, stripped once at import
SUPERADMIN_USERNAME == lstrip(config_handle)

-----------------------------------------------------------------------------
(* Roles and permissions (lines 157-187) *)

Employee == "employee"          \* "сотрудник"
Technologist == "technologist"  \* "технолог"
Manager == "manager"            \* "начальник"
RoleNames == {Employee, Technologist, Manager}

\* /add_user stores its third argument unchecked: any word can be a stored role
RoleArgs == RoleNames \cup {"boss"}

NoManager == 0

Profile(role, flag) ==
    [role |-> role, is_superadmin |-> flag, summary_enabled |-> FALSE,
     manager |-> NoManager]

TelegramUser(uid, username) == [id |-> uid, username |-> username]

is_superadmin_by_roles(uid) ==
    uid \in DOMAIN roles /\ roles[uid].is_superadmin

is_superadmin_by_username(username) ==
    IF username = <<>> THEN FALSE
    ELSE lstrip(lower(username)) = lower(SUPERADMIN_USERNAME)

\* faulty variant: the two authorities joined by "and"
is_superadmin_and(user) ==
    is_superadmin_by_roles(user.id) /\ is_superadmin_by_username(user.username)

is_superadmin(user) ==
    is_superadmin_by_roles(user.id) \/ is_superadmin_by_username(user.username)

\* faulty variant: technologist and manager ranks swapped
ROLE_LEVEL_swapped(r) ==
    CASE r = Employee -> 1
      [] r = Technologist -> 3
      [] r = Manager -> 2
      [] OTHER -> 0

\* ROLE_LEVEL.get(r, 0)
ROLE_LEVEL(r) ==
    CASE r = Employee -> 1
      [] r = Technologist -> 2
      [] r = Manager -> 3
      [] OTHER -> 0

\* faulty variant: any stored profile passes
has_role_permission_any_profile(user, required_role_name) ==
    IF is_superadmin(user) THEN TRUE
    ELSE user.id \in DOMAIN roles

has_role_permission(user, required_role_name) ==
    IF is_superadmin(user) THEN TRUE
    ELSE IF user.id \notin DOMAIN roles THEN FALSE
    ELSE ROLE_LEVEL(roles[user.id].role) >= ROLE_LEVEL(required_role_name)

-----------------------------------------------------------------------------
(* Dicts, updates and outbound messages *)

EmptyDict == <<>>

\* d[k] = v
DictSet(d, k, v) == [x \in (DOMAIN d) \cup {k} |-> IF x = k THEN v ELSE d[x]]

\* every dict with keys in K and values in V
Dicts(K, V) == UNION {[S -> V] : S \in SUBSET K}

NoName == <<>>

\* One inbound update: its kind (command or callback pattern or message
\* type), the sender (effective_user) and the payload: nargs = number of
\* command arguments, num / name / word = the arguments or callback fields.
Upd(kind, user, nargs, num, name, word) ==
    [kind |-> kind, id |-> user.id, username |-> user.username,
     nargs |-> nargs, num |-> num, name |-> name, word |-> word]

NoUpdate == Upd("none", TelegramUser(0, <<>>), 0, 0, NoName, "")

\* update.message.reply_text / q.message.reply_text to the sender
Reply(uid, tag) == [to |-> uid, via |-> "reply", tag |-> tag, about |-> NoName, ok |-> TRUE]

\* context.bot.send_message(uid, ...): ok = FALSE when the send raises
Notify(uid, tag, about, ok) ==
    [to |-> uid, via |-> "send_message", tag |-> tag, about |-> about, ok |-> ok]

\* Conversation states (lines 211-212); END is ConversationHandler.END and
\* Idle is "no conversation stored for this user"
REPORT_CHOOSE_TASK == "REPORT_CHOOSE_TASK"
REPORT_OTHER_NAME == "REPORT_OTHER_NAME"
REPORT_SELECT_TECH == "REPORT_SELECT_TECH"
REPORT_COUNT == "REPORT_COUNT"
POST_TEXT == "POST_TEXT"
POST_PHOTO == "POST_PHOTO"
END == "END"
Idle == "Idle"

\* lines 75-84: written only when tasks.json does not exist yet
DEFAULT_TASKS == << <<"f","l","o","o","r">>, <<"f","l","o","w","e","r","s">>,
                    <<"m","e","b","e","l">> >>

-----------------------------------------------------------------------------
(* The state every specification starts from, apart from the stores whose  *)
(* persisted content it draws from a bounded set.  The files are kept      *)
(* across restarts (lines 76-84 create them only when missing); the        *)
(* conversation data lives in memory and starts empty.  No monthly export  *)
(* has been written yet.                                                   *)

\* no append has been tried
NoIO == [csv |-> "none", mirror |-> "none"]

InitMemory ==
    /\ user_data = [u \in Users |-> EmptyDict]
    /\ report_conv = [u \in Users |-> Idle]
    /\ post_conv = [u \in Users |-> Idle]
    /\ update = NoUpdate
    /\ handler = "none"
    /\ sent = <<>>
    /\ returned = [u \in Users |-> Idle]
    /\ shown = [to |-> 0, items |-> <<>>]
    /\ react_pc = [u \in Users |-> "idle"]
    /\ react_req = [u \in Users |-> <<0, "">>]
    /\ exports = {}
    /\ io = NoIO

Handled(upd, name, msgs) ==
    /\ update' = upd
    /\ handler' = name
    /\ sent' = msgs

-----------------------------------------------------------------------------
(* Identity commands (lines 215-237 and 572-585) *)

\* /start
start(user) ==
    LET uid == user.id
    IN  /\ roles' = IF uid \notin DOMAIN roles
                    THEN DictSet(roles, uid, Profile(Employee, FALSE))
                    ELSE roles
        /\ Handled(Upd("start", user, 0, 0, NoName, ""), "start",
                   <<Reply(uid, "welcome")>>)
        /\ UNCHANGED <<config_handle, exports, io, tasks, pending, reports_csv, sheet, board,
                       user_data, report_conv, post_conv, returned, shown,
                       react_pc, react_req>>

\* /add_user TELEGRAM_ID Name [role]; nargs counts the arguments given
cmd_add_user(user, nargs, target, rolearg) ==
    LET upd == Upd("add_user", user, nargs, target, NoName, rolearg)
        role == IF nargs >= 3 THEN rolearg ELSE Employee
    IN  /\ IF ~is_superadmin(user)
           THEN /\ Handled(upd, "cmd_add_user", <<Reply(user.id, "only_superadmin")>>)
                /\ UNCHANGED roles
           ELSE IF nargs < 2
           THEN /\ Handled(upd, "cmd_add_user", <<Reply(user.id, "usage")>>)
                /\ UNCHANGED roles
           ELSE /\ roles' = DictSet(roles, target, Profile(role, FALSE))
                /\ Handled(upd, "cmd_add_user", <<Reply(user.id, "user_added")>>)
        /\ UNCHANGED <<config_handle, exports, io, tasks, pending, reports_csv, sheet, board,
                       user_data, report_conv, post_conv, returned, shown,
                       react_pc, react_req>>

-----------------------------------------------------------------------------
(* SpecPerm: the identity store under /start and /add_user, from any       *)
(* persisted roles.json and any configured handle of ConfigHandles.        *)

ConfigHandles == {<<"@", "Z">>, <<"@">>}
ActorHandles == {<<>>, <<"Z">>}

\* the profiles of roles.json: any role without the flag, and the flag on the
\* lowest role
StoredProfiles == {Profile(r, FALSE) : r \in RoleNames} \cup {Profile(Employee, TRUE)}

InitPerm ==
    /\ config_handle \in ConfigHandles
    /\ roles \in Dicts(Users, StoredProfiles)
    /\ tasks = DEFAULT_TASKS
    /\ pending = <<>>
    /\ reports_csv = <<>>
    /\ sheet = <<>>
    /\ board = <<>>
    /\ InitMemory

Start == \E u \in Users, h \in ActorHandles : start(TelegramUser(u, h))

CmdAddUser ==
    \E u \in Users, h \in ActorHandles :
        \/ cmd_add_user(TelegramUser(u, h), 1, 0, "")
        \/ \E t \in Users : cmd_add_user(TelegramUser(u, h), 2, t, "")
        \/ \E t \in Users, r \in RoleArgs : cmd_add_user(TelegramUser(u, h), 3, t, r)

NextPerm == Start \/ CmdAddUser

SpecPerm == InitPerm /\ [][NextPerm]_vars

-----------------------------------------------------------------------------
(* Dispatch (main, lines 663-693).  Every handler is registered in group   *)
(* 0, and Application.process_update gives an update to the first handler  *)
(* of the group whose check_update accepts it, and to no other.            *)

Registered == <<
    [h |-> "CommandHandler", kind |-> "start", cb |-> "start"],                     \* 663
    [h |-> "CommandHandler", kind |-> "report", cb |-> "cmd_report"],               \* 664
    [h |-> "CallbackQueryHandler", kind |-> "task", cb |-> "report_task_cb"],       \* 665
    [h |-> "CallbackQueryHandler", kind |-> "tech", cb |-> "report_select_tech_cb"],\* 666
    [h |-> "CallbackQueryHandler", kind |-> "pending", cb |-> "pending_action_cb"], \* 667
    [h |-> "CommandHandler", kind |-> "pending_tasks", cb |-> "cmd_pending_tasks"], \* 668
    [h |-> "CommandHandler", kind |-> "tasks", cb |-> "cmd_tasks"],                 \* 669
    [h |-> "CommandHandler", kind |-> "add_task", cb |-> "cmd_add_task"],           \* 670
    [h |-> "CommandHandler", kind |-> "remove_task", cb |-> "cmd_remove_task"],     \* 671
    [h |-> "CommandHandler", kind |-> "employees", cb |-> "cmd_employees"],         \* 672
    [h |-> "CommandHandler", kind |-> "board", cb |-> "cmd_board"],                 \* 673
    [h |-> "ConversationHandler", kind |-> "post", cb |-> ""],                      \* 674
    [h |-> "CallbackQueryHandler", kind |-> "react", cb |-> "react_cb"],            \* 679
    [h |-> "CommandHandler", kind |-> "add_user", cb |-> "cmd_add_user"],           \* 680
    [h |-> "CommandHandler", kind |-> "users", cb |-> "cmd_users"],                 \* 681
    [h |-> "CommandHandler", kind |-> "assign_user", cb |-> "cmd_assign_user"],     \* 682
    [h |-> "CommandHandler", kind |-> "toggle_summary", cb |-> "cmd_toggle_summary"], \* 683
    [h |-> "CommandHandler", kind |-> "lang", cb |-> "cmd_lang"],                   \* 684
    [h |-> "CallbackQueryHandler", kind |-> "lang_cb", cb |-> "lang_cb"],           \* 685
    [h |-> "CommandHandler", kind |-> "zvit", cb |-> "cmd_zvit"],                   \* 686
    [h |-> "ConversationHandler", kind |-> "report", cb |-> ""] >>                  \* 687

\* ConversationHandler.check_update of the announcement wizard (674-678):
\* the entry point when no conversation is stored, else the handlers of the
\* stored state, else the fallbacks
PostConvMatch(state, kind) ==
    CASE state = Idle /\ kind = "post" -> "cmd_post"
      [] state = POST_TEXT /\ kind = "text" -> "post_text_received"
      [] state = POST_PHOTO /\ kind = "photo" -> "post_photo_received"
      [] state = POST_PHOTO /\ kind = "skip" -> "post_skip_photo"
      [] state # Idle /\ kind = "cancel" -> "cancel"
      [] OTHER -> "none"

\* ConversationHandler.check_update of the report wizard (687-693)
ReportConvMatch(state, kind) ==
    CASE state = Idle /\ kind = "report" -> "cmd_report"
      [] state = REPORT_CHOOSE_TASK /\ kind = "task" -> "report_task_cb"
      [] state = REPORT_OTHER_NAME /\ kind = "text" -> "report_other_name"
      [] state = REPORT_SELECT_TECH /\ kind = "tech" -> "report_select_tech_cb"
      [] state = REPORT_COUNT /\ kind = "text" -> "report_count_received"
      [] state # Idle /\ kind = "cancel" -> "cancel"
      [] OTHER -> "none"

\* what the i-th registered handler answers to an update of this kind from uid
MatchAt(i, kind, uid) ==
    IF Registered[i].h = "ConversationHandler"
    THEN IF Registered[i].kind = "post"
         THEN PostConvMatch(post_conv[uid], kind)
         ELSE ReportConvMatch(report_conv[uid], kind)
    ELSE IF Registered[i].kind = kind THEN Registered[i].cb ELSE "none"

\* the callback that takes the update, and the conversation (if any) that
\* stores its return value
Dispatch(kind, uid) ==
    LET hits == {i \in DOMAIN Registered : MatchAt(i, kind, uid) # "none"}
    IN  IF hits = {} THEN [cb |-> "none", conv |-> "none"]
        ELSE LET i == CHOOSE j \in hits : \A k \in hits : j <= k
             IN  [cb |-> MatchAt(i, kind, uid),
                  conv |-> IF Registered[i].h = "ConversationHandler"
                           THEN Registered[i].kind ELSE "none"]

\* An update no handler accepts: nothing runs
Unhandled(upd) ==
    /\ Handled(upd, "none", <<>>)
    /\ UNCHANGED <<config_handle, exports, io, roles, tasks, pending, reports_csv, sheet, board,
                   user_data, report_conv, post_conv, returned, shown,
                   react_pc, react_req>>

\* ConversationHandler._update_state: END removes the conversation, None
\* (here Idle) keeps the stored state, any other value is stored
ConvAfter(conv, uid, ret) ==
    IF ret = Idle THEN conv
    ELSE [conv EXCEPT ![uid] = IF ret = END THEN Idle ELSE ret]

\* the return value of a report callback: stored when the callback ran inside
\* the report ConversationHandler, dropped when a stand-alone handler ran it
ReportReturns(route, uid, ret) ==
    /\ returned' = [returned EXCEPT ![uid] = ret]
    /\ report_conv' = IF route.conv = "report"
                      THEN ConvAfter(report_conv, uid, ret)
                      ELSE report_conv

-----------------------------------------------------------------------------
(* Message texts *)

Digits == <<"0", "1", "2", "3", "4", "5", "6", "7", "8", "9">>
IsDigit(c) == \E i \in DOMAIN Digits : Digits[i] = c
DigitValue(c) == (CHOOSE i \in DOMAIN Digits : Digits[i] = c) - 1

\* str.strip(): drops leading and trailing blanks
RECURSIVE rstrip(_)
rstrip(s) == IF s # <<>> /\ s[Len(s)] = " " THEN rstrip(SubSeq(s, 1, Len(s) - 1)) ELSE s
RECURSIVE lstrip_blank(_)
lstrip_blank(s) == IF s # <<>> /\ Head(s) = " " THEN lstrip_blank(Tail(s)) ELSE s
strip(s) == rstrip(lstrip_blank(s))

\* int(text) succeeds: an optional sign and at least one digit
HasSign(s) == s # <<>> /\ Head(s) \in {"-", "+"}
Unsigned(s) == IF HasSign(s) THEN Tail(s) ELSE s
IsInt(s) == Unsigned(s) # <<>> /\ \A i \in DOMAIN Unsigned(s) : IsDigit(Unsigned(s)[i])

RECURSIVE DecimalValue(_)
DecimalValue(s) ==
    IF s = <<>> THEN 0
    ELSE 10 * DecimalValue(SubSeq(s, 1, Len(s) - 1)) + DigitValue(s[Len(s)])

\* int(text), where IsInt(text)
int(s) == IF HasSign(s) /\ Head(s) = "-" THEN 0 - DecimalValue(Unsigned(s))
          ELSE DecimalValue(Unsigned(s))

-----------------------------------------------------------------------------
(* Report wizard callbacks (lines 239-324) *)

OtherButton == <<"o", "t", "h", "e", "r">>   \* callback_data "task::other"
NoTech == 0                                  \* tech "" ("Не назначать")
DashName == <<"-">>                          \* the default task name "—"

RECURSIVE Ascending(_)
Ascending(S) ==
    IF S = {} THEN <<>>
    ELSE LET m == CHOOSE x \in S : \A y \in S : x <= y
         IN  <<m>> \o Ascending(S \ {m})

\* profiles whose role is технолог or начальник (lines 259-260, 278-279)
Reviewers == {uid \in DOMAIN roles : roles[uid].role \in {Technologist, Manager}}

\* faulty variant: the loop ends at the first send that raises
NotifyAllStopAtFailure(S, tag, about, down) ==
    [i \in 1..Cardinality({j \in 1..Cardinality(S) :
                              \A k \in 1..(j - 1) : Ascending(S)[k] \notin down}) |->
        Notify(Ascending(S)[i], tag, about, Ascending(S)[i] \notin down)]

\* a loop of bot.send_message over the uids of S, each in its own try/except;
\* the send to a uid of `down` raises
NotifyAll(S, tag, about, down) ==
    [i \in 1..Cardinality(S) |->
        Notify(Ascending(S)[i], tag, about, Ascending(S)[i] \notin down)]

ReportFrame == UNCHANGED <<config_handle, exports, roles, tasks, board, post_conv, shown,
                           react_pc, react_req>>

\* /report (lines 240-246)
cmd_report(user, route) ==
    /\ Handled(Upd("report", user, 0, 0, NoName, ""), "cmd_report",
               <<Reply(user.id, "choose_task")>>)
    /\ user_data' = [user_data EXCEPT ![user.id] = DictSet(@, "report", EmptyDict)]
    /\ ReportReturns(route, user.id, REPORT_CHOOSE_TASK)
    /\ UNCHANGED <<pending, reports_csv, sheet>>
    /\ ReportFrame /\ UNCHANGED io

\* button task::<selection> (lines 248-264)
report_task_cb(user, selection, route) ==
    LET uid == user.id
        upd == Upd("task", user, 0, 0, selection, "")
    IN  /\ IF selection = OtherButton
           THEN /\ Handled(upd, "report_task_cb", <<Reply(uid, "write_task_name")>>)
                /\ ReportReturns(route, uid, REPORT_OTHER_NAME)
                /\ UNCHANGED user_data
           ELSE IF "report" \notin DOMAIN user_data[uid]
           THEN \* KeyError at line 255: the callback raises
                /\ Handled(upd, "report_task_cb", <<>>)
                /\ UNCHANGED <<user_data, returned, report_conv>>
           ELSE /\ user_data' = [user_data EXCEPT ![uid] =
                        DictSet(@, "report", DictSet(@["report"], "task", selection))]
                /\ Handled(upd, "report_task_cb", <<Reply(uid, "choose_tech")>>)
                /\ ReportReturns(route, uid, REPORT_SELECT_TECH)
        /\ UNCHANGED <<pending, reports_csv, sheet>>
        /\ ReportFrame /\ UNCHANGED io

\* button tech::<uid> or tech::none (lines 288-297); choice = NoTech for none
report_select_tech_cb(user, choice, route) ==
    LET uid == user.id
        upd == Upd("tech", user, 0, choice, NoName, IF choice = NoTech THEN "none" ELSE "uid")
    IN  /\ IF "report" \notin DOMAIN user_data[uid]
           THEN \* KeyError at line 293 or 295: the callback raises
                /\ Handled(upd, "report_select_tech_cb", <<>>)
                /\ UNCHANGED <<user_data, returned, report_conv>>
           ELSE /\ user_data' = [user_data EXCEPT ![uid] =
                        DictSet(@, "report", DictSet(@["report"], "tech", choice))]
                /\ Handled(upd, "report_select_tech_cb", <<Reply(uid, "ask_count")>>)
                /\ ReportReturns(route, uid, REPORT_COUNT)
        /\ UNCHANGED <<pending, reports_csv, sheet>>
        /\ ReportFrame /\ UNCHANGED io

Proposal(name, uid, date) == [name |-> name, user_id |-> uid, date |-> date]

\* free text in REPORT_OTHER_NAME (lines 266-286)
report_other_name(user, msg, now, down, route) ==
    LET uid == user.id
        upd == Upd("text", user, 0, 0, msg, "")
        text == strip(msg)
    IN  /\ IF text = <<>>
           THEN /\ Handled(upd, "report_other_name", <<Reply(uid, "name_empty")>>)
                /\ ReportReturns(route, uid, REPORT_OTHER_NAME)
                /\ UNCHANGED pending
           ELSE /\ pending' = Append(pending, Proposal(text, uid, now))
                /\ Handled(upd, "report_other_name",
                           NotifyAll(Reviewers, "new_proposal", text, down)
                               \o <<Reply(uid, "proposal_sent")>>)
                /\ ReportReturns(route, uid, END)
        /\ UNCHANGED <<user_data, reports_csv, sheet>>
        /\ ReportFrame /\ UNCHANGED io

Row(date, name, role, task, cnt, tech) ==
    [date |-> date, name |-> name, role |-> role, task |-> task, count |-> cnt,
     tech |-> tech]

\* rpt.get(key, default)
DictGet(d, k, default) == IF k \in DOMAIN d THEN d[k] ELSE default

\* a line of reports.csv: the row as df.to_csv writes it.  `decimal` tells
\* whether the Технолог cell is written with a decimal point ("555.0")
CsvLine(row) ==
    [f \in (DOMAIN row) \cup {"decimal"} |-> IF f = "decimal" THEN FALSE ELSE row[f]]

\* pd.read_csv (line 150) followed by to_csv (line 155) on the stored lines:
\* a Технолог column that holds an empty cell next to numbers is parsed as
\* float64 (the empty cell is NaN), and its numbers are written back with a
\* decimal point
read_csv(ledger) ==
    LET as_float == \E i \in DOMAIN ledger : ledger[i].tech = NoTech \/ ledger[i].decimal
    IN  [i \in DOMAIN ledger |->
            IF as_float /\ ledger[i].tech # NoTech
            THEN [ledger[i] EXCEPT !.decimal = TRUE]
            ELSE ledger[i]]

\* faulty variant: a failed ledger append goes unnoticed
append_csv_row_swallowed(ledger, row, csv_ok) ==
    [rows |-> IF csv_ok THEN Append(read_csv(ledger), CsvLine(row)) ELSE ledger,
     raised |-> FALSE]

\* append_csv_row (lines 147-155): the file is read, the row is added and the
\* whole file is written again; or the call raises and the ledger is as
\* before
append_csv_row(ledger, row, csv_ok) ==
    [rows |-> IF csv_ok THEN Append(read_csv(ledger), CsvLine(row)) ELSE ledger,
     raised |-> ~csv_ok]

\* append_to_sheet (lines 133-144): the row is appended, or there is no
\* client ("absent": returns False), or the call raises
append_to_sheet(rows, row, mirror) ==
    IF mirror = "appended" THEN Append(rows, row) ELSE rows

\* faulty variant: the reviewer is not told
CountRepliesSubmitterOnly(uid, task, tech, down) == <<Reply(uid, "recorded")>>

\* lines 319-323: the confirmation, then the notice to the assigned reviewer
CountReplies(uid, task, tech, down) ==
    <<Reply(uid, "recorded")>>
        \o (IF tech # NoTech
            THEN <<Notify(tech, "report_for_you", task, tech \notin down)>>
            ELSE <<>>)

\* free text in REPORT_COUNT (lines 299-324).  csv_ok: append_csv_row
\* returns (else it raises and the callback ends there); mirror: what
\* append_to_sheet does, inside its own try/except (lines 314-318)
report_count_received(user, msg, now, csv_ok, mirror, down, route) ==
    LET uid == user.id
        upd == Upd("text", user, 0, 0, msg, "")
        text == strip(msg)
        rpt == DictGet(user_data[uid], "report", EmptyDict)
        task == DictGet(rpt, "task", DashName)
        tech == DictGet(rpt, "tech", NoTech)
        row == Row(now, uid, Employee, task, int(text), tech)
        csv == append_csv_row(reports_csv, row, csv_ok)
    IN  /\ IF ~IsInt(text)
           THEN /\ Handled(upd, "report_count_received", <<Reply(uid, "enter_number")>>)
                /\ ReportReturns(route, uid, REPORT_COUNT)
                /\ io' = NoIO
                /\ UNCHANGED <<reports_csv, sheet>>
           ELSE IF csv.raised
           THEN /\ reports_csv' = csv.rows
                /\ Handled(upd, "report_count_received", <<>>)
                /\ io' = [csv |-> "raises", mirror |-> "none"]
                /\ UNCHANGED <<sheet, returned, report_conv>>
           ELSE /\ reports_csv' = csv.rows
                /\ sheet' = append_to_sheet(sheet, row, mirror)
                /\ io' = [csv |-> IF csv_ok THEN "ok" ELSE "raises", mirror |-> mirror]
                /\ Handled(upd, "report_count_received",
                           CountReplies(uid, task, tech, down))
                /\ ReportReturns(route, uid, END)
        /\ UNCHANGED <<user_data, pending>>
        /\ ReportFrame

-----------------------------------------------------------------------------
(* Announcement wizard, first steps (lines 446-460) *)

PostFrame == UNCHANGED <<config_handle, exports, io, roles, tasks, pending, reports_csv, sheet,
                         board, report_conv, returned, shown, react_pc, react_req>>

\* /post (lines 446-451)
cmd_post(user) ==
    LET upd == Upd("post", user, 0, 0, NoName, "")
    IN  /\ IF ~has_role_permission(user, Technologist)
           THEN /\ Handled(upd, "cmd_post", <<Reply(user.id, "no_access")>>)
                /\ UNCHANGED post_conv
           ELSE /\ Handled(upd, "cmd_post", <<Reply(user.id, "send_text")>>)
                /\ post_conv' = ConvAfter(post_conv, user.id, POST_TEXT)
        /\ UNCHANGED user_data
        /\ PostFrame

\* free text in POST_TEXT (lines 453-460)
post_text_received(user, msg) ==
    LET upd == Upd("text", user, 0, 0, msg, "")
        text == strip(msg)
    IN  /\ IF text = <<>>
           THEN /\ Handled(upd, "post_text_received", <<Reply(user.id, "text_empty")>>)
                /\ post_conv' = ConvAfter(post_conv, user.id, POST_TEXT)
                /\ UNCHANGED user_data
           ELSE /\ user_data' = [user_data EXCEPT ![user.id] = DictSet(@, "post_text", text)]
                /\ Handled(upd, "post_text_received", <<Reply(user.id, "attach_or_skip")>>)
                /\ post_conv' = ConvAfter(post_conv, user.id, POST_PHOTO)
        /\ PostFrame

-----------------------------------------------------------------------------
(* SpecReport: users send /report, task and reviewer buttons and free text *)
(* in any order; each update goes to the handler Dispatch selects.         *)

Texts == {<<"3">>, <<"a", "b", "c">>, <<" ">>, <<" ", "3">>}
TaskButtons == {DEFAULT_TASKS[1], OtherButton}
\* the time of a report or proposal: <<month, day>>, months counted from a
\* fixed origin
Dates == {<<1, 1>>}
MirrorOutcomes == {"appended", "absent", "raises"}

\* roles.json: empty, or user 1 an employee and every other user of one role
RoleFiles ==
    {EmptyDict} \cup
    {[u \in Users |-> Profile(IF u = 1 THEN Employee ELSE r, FALSE)] : r \in RoleNames}

InitReport ==
    /\ config_handle = <<"z">>
    /\ roles \in RoleFiles
    /\ tasks = DEFAULT_TASKS
    /\ pending = <<>>
    /\ reports_csv = <<>>
    /\ sheet = <<>>
    /\ board = <<>>
    /\ InitMemory

Sender(u) == TelegramUser(u, <<>>)

CmdReport ==
    \E u \in Users :
        LET route == Dispatch("report", u)
        IN  /\ route.cb = "cmd_report"
            /\ cmd_report(Sender(u), route)

TaskButton ==
    \E u \in Users, selection \in TaskButtons :
        LET route == Dispatch("task", u)
        IN  /\ route.cb = "report_task_cb"
            /\ report_task_cb(Sender(u), selection, route)

TechButton ==
    \E u \in Users, choice \in {NoTech} \cup Users :
        LET route == Dispatch("tech", u)
        IN  /\ route.cb = "report_select_tech_cb"
            /\ report_select_tech_cb(Sender(u), choice, route)

TextMessage ==
    \E u \in Users, msg \in Texts :
        LET route == Dispatch("text", u)
        IN  CASE route.cb = "post_text_received" ->
                    post_text_received(Sender(u), msg)
              [] route.cb = "report_other_name" ->
                    \E now \in Dates, down \in SUBSET Users :
                        report_other_name(Sender(u), msg, now, down, route)
              [] route.cb = "report_count_received" ->
                    \E now \in Dates, csv_ok \in BOOLEAN, mirror \in MirrorOutcomes,
                       down \in SUBSET Users :
                        report_count_received(Sender(u), msg, now, csv_ok, mirror,
                                              down, route)
              [] OTHER -> Unhandled(Upd("text", Sender(u), 0, 0, msg, ""))

NextReport == CmdReport \/ TaskButton \/ TechButton \/ TextMessage

SpecReport == InitReport /\ [][NextReport]_vars

-----------------------------------------------------------------------------
(* Pending moderation (lines 326-370) *)

ModerationFrame == UNCHANGED <<config_handle, exports, io, roles, reports_csv, sheet, board,
                               user_data, report_conv, post_conv, returned,
                               react_pc, react_req>>

ProposalLine(uid, i, entry) ==
    [to |-> uid, via |-> "reply", tag |-> "proposal", about |-> entry.name, ok |-> TRUE]

\* /pending_tasks (lines 327-338): one message per proposal, each with the
\* buttons pending::approve::i and pending::reject::i, i counted from 0
cmd_pending_tasks(user) ==
    LET uid == user.id
        upd == Upd("pending_tasks", user, 0, 0, NoName, "")
    IN  /\ IF ~has_role_permission(user, Technologist) /\ ~has_role_permission(user, Manager)
           THEN /\ Handled(upd, "cmd_pending_tasks", <<Reply(uid, "no_access")>>)
                /\ UNCHANGED shown
           ELSE IF pending = <<>>
           THEN /\ Handled(upd, "cmd_pending_tasks", <<Reply(uid, "no_proposals")>>)
                /\ UNCHANGED shown
           ELSE /\ Handled(upd, "cmd_pending_tasks",
                           [i \in DOMAIN pending |-> ProposalLine(uid, i - 1, pending[i])])
                /\ shown' = [to |-> uid, items |-> pending]
        /\ UNCHANGED <<tasks, pending>>
        /\ ModerationFrame

\* the 1-based position of Python's items[idx], idx counted from the end
\* when negative
Position(items, idx) == IF idx < 0 THEN Len(items) + idx + 1 ELSE idx + 1

\* faulty variant: pops the last element whatever the index
PopLast(items, idx) == SubSeq(items, 1, Len(items) - 1)

\* items.pop(idx): the list without its element idx
Pop(items, idx) ==
    [i \in 1..(Len(items) - 1) |->
        IF i < Position(items, idx) THEN items[i] ELSE items[i + 1]]

\* faulty variant: the range check accepts the negative indices list.pop accepts
IndexInRangeNegative(items, idx) == idx >= 0 - Len(items) /\ idx < Len(items)

\* the negation of line 350
IndexInRange(items, idx) == ~(idx < 0 \/ idx >= Len(items))

\* faulty variant: the name is appended whether or not it is there
ApprovedTasksAlways(names, name) == Append(names, name)

\* lines 357-359: the catalog after approving `name`
ApprovedTasks(names, name) ==
    IF \E i \in DOMAIN names : names[i] = name THEN names ELSE Append(names, name)

\* button pending::<action>::<idx> (lines 340-370)
pending_action_cb(user, action, idx, down) ==
    LET uid == user.id
        upd == Upd("pending", user, 0, idx, NoName, action)
        entry == pending[Position(pending, idx)]
    IN  /\ IF ~IndexInRange(pending, idx)
           THEN /\ Handled(upd, "pending_action_cb", <<Reply(uid, "bad_index")>>)
                /\ UNCHANGED <<pending, tasks>>
           ELSE /\ pending' = Pop(pending, idx)
                /\ IF action = "approve"
                   THEN /\ tasks' = ApprovedTasks(tasks, entry.name)
                        /\ Handled(upd, "pending_action_cb",
                               <<Notify(entry.user_id, "approved", entry.name,
                                        entry.user_id \notin down),
                                 Reply(uid, "added_to_tasks")>>)
                   ELSE /\ tasks' = tasks
                        /\ Handled(upd, "pending_action_cb",
                               <<Notify(entry.user_id, "rejected", entry.name,
                                        entry.user_id \notin down),
                                 Reply(uid, "rejected_done")>>)
        /\ UNCHANGED shown
        /\ ModerationFrame

-----------------------------------------------------------------------------
(* SpecModeration: users press approve and reject buttons, with any index, *)
(* on a pending_tasks.json kept from earlier runs.  Proposal i of that     *)
(* file was made by user 1 + (i mod NumUsers) at time i.  SpecReview adds  *)
(* /pending_tasks, which records the listing a reviewer acts on.           *)

NewName == <<"w", "i", "n">>
ProposalNames == {DEFAULT_TASKS[1], NewName}

PendingFiles ==
    {[i \in 1..MaxPending |-> Proposal(names[i], 1 + (i % NumUsers), <<1, i>>)] :
        names \in [1..MaxPending -> ProposalNames]}

\* roles.json: user 1 an employee, every other user a technologist
ReviewerFiles ==
    {[u \in Users |-> Profile(IF u = 1 THEN Employee ELSE Technologist, FALSE)]}

InitModeration ==
    /\ config_handle = <<"z">>
    /\ roles \in ReviewerFiles
    /\ tasks = DEFAULT_TASKS
    /\ pending \in PendingFiles
    /\ reports_csv = <<>>
    /\ sheet = <<>>
    /\ board = <<>>
    /\ InitMemory

CmdPendingTasks == \E u \in Users : cmd_pending_tasks(Sender(u))

PendingButton ==
    \E u \in Users, action \in {"approve", "reject"}, idx \in -1..MaxPending,
       down \in {{}, Users} :
        pending_action_cb(Sender(u), action, idx, down)

NextModeration == PendingButton

SpecModeration == InitModeration /\ [][NextModeration]_vars

NextReview == CmdPendingTasks \/ PendingButton

SpecReview == InitModeration /\ [][NextReview]_vars

-----------------------------------------------------------------------------
(* Board reactions (lines 502-523) *)

Post(id, author, photo, reactions) ==
    [id |-> id, author |-> author, photo |-> photo, reactions |-> reactions]

\* next((p for p in board["posts"] if p["id"] == pid), None): its position, 0 for None
FindPost(posts, pid) ==
    IF \E i \in DOMAIN posts : posts[i].id = pid
    THEN CHOOSE i \in DOMAIN posts :
            posts[i].id = pid /\ \A j \in DOMAIN posts : posts[j].id = pid => i <= j
    ELSE 0

Contains(list, x) == \E i \in DOMAIN list : list[i] = x

\* list.remove(x): drops the first occurrence of x
Remove(list, x) ==
    LET k == CHOOSE i \in DOMAIN list : list[i] = x /\ \A j \in DOMAIN list : list[j] = x => i <= j
    IN  SubSeq(list, 1, k - 1) \o SubSeq(list, k + 1, Len(list))

\* faulty variant: never removes
ToggleListAppendOnly(em_list, uid) == Append(em_list, uid)

\* faulty variant: a new reactor replaces the list
ToggleListOverwrite(em_list, uid) ==
    IF Contains(em_list, uid) THEN Remove(em_list, uid) ELSE <<uid>>

\* lines 518-521
ToggleList(em_list, uid) ==
    IF Contains(em_list, uid) THEN Remove(em_list, uid) ELSE Append(em_list, uid)

\* lines 515-522 on the post at position k: setdefault(em, []), toggle, save
toggle_reaction(posts, k, em, uid) ==
    LET em_list == DictGet(posts[k].reactions, em, <<>>)
    IN  [posts EXCEPT ![k].reactions = DictSet(@, em, ToggleList(em_list, uid))]

BoardFrame == UNCHANGED <<config_handle, exports, io, roles, tasks, pending, reports_csv, sheet,
                          user_data, report_conv, post_conv, returned, shown>>

NoReaction == <<0, "">>

\* button react::<pid>::<em>: the callback starts and is suspended in
\* `await q.answer()` (line 504)
react_cb_begin(user, pid, em) ==
    /\ react_pc[user.id] = "idle"
    /\ react_pc' = [react_pc EXCEPT ![user.id] = "answering"]
    /\ react_req' = [react_req EXCEPT ![user.id] = <<pid, em>>]
    /\ Handled(Upd("react", user, 0, pid, NoName, em), "react_cb", <<>>)
    /\ UNCHANGED board
    /\ BoardFrame

\* the callback resumes: lines 505-523, with no await between load_board
\* and save_board
react_cb_resume(user) ==
    LET uid == user.id
        pid == react_req[uid][1]
        em == react_req[uid][2]
        k == FindPost(board, pid)
    IN  /\ react_pc[uid] = "answering"
        /\ react_pc' = [react_pc EXCEPT ![uid] = "idle"]
        /\ react_req' = [react_req EXCEPT ![uid] = NoReaction]
        /\ IF k = 0
           THEN /\ Handled(Upd("react", user, 0, pid, NoName, em), "react_cb",
                           <<Reply(uid, "post_not_found")>>)
                /\ UNCHANGED board
           ELSE /\ board' = toggle_reaction(board, k, em, uid)
                /\ Handled(Upd("react", user, 0, pid, NoName, em), "react_cb",
                           <<Reply(uid, "reaction_saved")>>)
        /\ BoardFrame

-----------------------------------------------------------------------------
(* SpecBoard: users press the heart button of post 1 and of a post that    *)
(* does not exist; a callback of one user can be suspended while those of  *)
(* other users run.  board.json holds up to two posts published before,    *)
(* with or without reactions on the other button and the other post.       *)

Emojis == {"heart", "thumb"}
PressedEmojis == {"heart"}
ReactPids == {1, 3}

BoardFiles ==
    { <<>>,
      <<Post(1, 1, "none", EmptyDict)>>,
      <<Post(2, 2, "file", EmptyDict), Post(1, 1, "none", [thumb |-> <<2, 1>>])>>,
      <<Post(2, 2, "file", [thumb |-> <<1>>]), Post(1, 1, "none", EmptyDict)>> }

InitBoard ==
    /\ config_handle = <<"z">>
    /\ roles = EmptyDict
    /\ tasks = DEFAULT_TASKS
    /\ pending = <<>>
    /\ reports_csv = <<>>
    /\ sheet = <<>>
    /\ board \in BoardFiles
    /\ InitMemory

ReactBegin ==
    \E u \in Users, pid \in ReactPids, em \in PressedEmojis :
        react_cb_begin(Sender(u), pid, em)

ReactResume == \E u \in Users : react_cb_resume(Sender(u))

NextBoard == ReactBegin \/ ReactResume

SpecBoard == InitBoard /\ [][NextBoard]_vars

-----------------------------------------------------------------------------
(* Announcement wizard, last steps (lines 462-500), and its /cancel        *)
(* fallback (line 678)                                                     *)

\* faulty variant: the largest id is taken again
NextPostIdNoIncrement(posts) ==
    IF posts = <<>> THEN 1
    ELSE CHOOSE m \in {posts[i].id : i \in DOMAIN posts} :
            \A i \in DOMAIN posts : posts[i].id <= m

\* lines 467-469 and 486-488: 1 on an empty board, else max id + 1
NextPostId(posts) ==
    IF posts = <<>> THEN 1
    ELSE (CHOOSE m \in {posts[i].id : i \in DOMAIN posts} :
            \A i \in DOMAIN posts : posts[i].id <= m) + 1

PublishFrame == UNCHANGED <<config_handle, exports, io, roles, tasks, pending, reports_csv, sheet,
                            user_data, report_conv, returned, shown, react_pc,
                            react_req>>

\* lines 465-481 and 484-500: the post goes to the head of the board, every
\* stored profile is sent the announcement (each send in its own
\* try/except), the author gets the confirmation and the conversation ends.
\* The text of the post is user_data.get("post_text", ""); the model keeps
\* it in the broadcast and not in the stored post.
publish(user, upd, name, photo, down) ==
    LET uid == user.id
        text == DictGet(user_data[uid], "post_text", <<>>)
        post == Post(NextPostId(board), uid, photo, EmptyDict)
    IN  /\ board' = <<post>> \o board
        /\ Handled(upd, name,
                   NotifyAll(DOMAIN roles, "new_post", text, down)
                       \o <<Reply(uid, "published")>>)
        /\ post_conv' = ConvAfter(post_conv, uid, END)
        /\ PublishFrame

\* a photo in POST_PHOTO (lines 462-481)
post_photo_received(user, down) ==
    publish(user, Upd("photo", user, 0, 0, NoName, ""), "post_photo_received",
            "file", down)

\* /skip in POST_PHOTO (lines 483-500)
post_skip_photo(user, down) ==
    publish(user, Upd("skip", user, 0, 0, NoName, ""), "post_skip_photo",
            "none", down)

\* /cancel inside a conversation: the fallback `lambda u, c:
\* ConversationHandler.END` (lines 678 and 693) is not a coroutine function.
\* Awaiting its result raises before any state is stored (ended = FALSE); a
\* library that accepts the plain return value ends the conversation
\* (ended = TRUE).  Neither touches user_data.
cancel_fallback(user, route, ended) ==
    LET uid == user.id
    IN  /\ Handled(Upd("cancel", user, 0, 0, NoName, ""), "cancel", <<>>)
        /\ post_conv' = IF route.conv = "post" /\ ended
                        THEN ConvAfter(post_conv, uid, END) ELSE post_conv
        /\ report_conv' = IF route.conv = "report" /\ ended
                          THEN ConvAfter(report_conv, uid, END) ELSE report_conv
        /\ UNCHANGED <<config_handle, exports, io, roles, tasks, pending, reports_csv, sheet,
                       board, user_data, returned, shown, react_pc, react_req>>

-----------------------------------------------------------------------------
(* SpecPost: users send /post, text, photos, /skip and /cancel in any      *)
(* order; each update goes to the handler Dispatch selects.  board.json is *)
(* empty or holds posts published before, and a publish is accepted while  *)
(* the board holds fewer than MaxPosts posts.                              *)

PostTexts == {<<"a", "b", "c">>, <<" ">>}

\* roles.json: the first two users technologists and the others employees
AuthorFiles ==
    { [u \in Users |-> Profile(IF u <= 2 THEN Technologist ELSE Employee, FALSE)] }

\* one recipient of a broadcast is out of reach, or none
DownSets == {{}, {1}}

InitPost ==
    /\ config_handle = <<"z">>
    /\ roles \in AuthorFiles
    /\ tasks = DEFAULT_TASKS
    /\ pending = <<>>
    /\ reports_csv = <<>>
    /\ sheet = <<>>
    /\ board \in {<<>>, <<Post(2, 2, "file", EmptyDict), Post(1, 1, "none", EmptyDict)>>}
    /\ InitMemory

CmdPost ==
    \E u \in Users :
        /\ Dispatch("post", u).cb = "cmd_post"
        /\ cmd_post(Sender(u))

PostText ==
    \E u \in Users, msg \in PostTexts :
        IF Dispatch("text", u).cb = "post_text_received"
        THEN post_text_received(Sender(u), msg)
        ELSE Unhandled(Upd("text", Sender(u), 0, 0, msg, ""))

PostPhoto ==
    \E u \in Users, down \in DownSets :
        /\ Dispatch("photo", u).cb = "post_photo_received"
        /\ Len(board) < MaxPosts
        /\ post_photo_received(Sender(u), down)

PostSkip ==
    \E u \in Users, down \in DownSets :
        /\ Dispatch("skip", u).cb = "post_skip_photo"
        /\ Len(board) < MaxPosts
        /\ post_skip_photo(Sender(u), down)

Cancel ==
    \E u \in Users, ended \in BOOLEAN :
        LET route == Dispatch("cancel", u)
        IN  /\ route.cb = "cancel"
            /\ cancel_fallback(Sender(u), route, ended)

NextPost == CmdPost \/ PostText \/ PostPhoto \/ PostSkip \/ Cancel

SpecPost == InitPost /\ [][NextPost]_vars

-----------------------------------------------------------------------------
(* The monthly summary job (lines 526-569), scheduled by main for the     *)
(* first day of every month (lines 695-700)                                *)

\* strftime("%Y-%m") of a date <<month, day>>
MonthKey(date) == date[1]

\* (now.replace(day=1) - timedelta(days=1)).strftime("%Y-%m"), lines 529-530
PrevMonth(now) == now - 1

\* faulty variant: the rows of every month
MonthRowsAll(rows, month_key) == rows

\* df[df["Дата"].dt.strftime("%Y-%m") == month_key], line 535
MonthRows(rows, month_key) ==
    SelectSeq(rows, LAMBDA r : MonthKey(r.date) = month_key)

\* dfm["Количество"].sum(), line 540
RECURSIVE SumCounts(_)
SumCounts(rows) ==
    IF rows = <<>> THEN 0 ELSE Head(rows).count + SumCounts(Tail(rows))

\* the different values of dfm["Имя"], line 542
NamesOf(rows) == {rows[i].name : i \in DOMAIN rows}

\* dfm.groupby("Имя")["Количество"].sum(), line 543
groupby_sum(rows) ==
    [n \in NamesOf(rows) |-> SumCounts(SelectSeq(rows, LAMBDA r : r.name = n))]

\* .sort_values(ascending=False) over the names of S: the orders a
\* descending sort can return.  The groups arrive in the order of their keys
\* and the sort is numpy's quicksort, which promises no order among equal
\* sums.
RECURSIVE sort_values(_, _)
sort_values(sums, S) ==
    IF S = {} THEN {<<>>}
    ELSE UNION { {<<n>> \o t : t \in sort_values(sums, S \ {n})} :
                 n \in {m \in S : \A x \in S : sums[m] >= sums[x]} }

\* .head(3)
head3(s) == SubSeq(s, 1, IF Len(s) < 3 THEN Len(s) ELSE 3)

\* the values of `top` the job can compute (lines 543-545), as pairs
\* <<name, summed count>>
TopChoices(rows) ==
    LET sums == groupby_sum(rows)
    IN  {[i \in DOMAIN head3(s) |-> <<head3(s)[i], sums[head3(s)[i]]>>] :
            s \in sort_values(sums, DOMAIN sums)}

\* what the summary text is built from (line 562)
Summary(month_key, rows, top) ==
    [month |-> month_key, users |-> Cardinality(NamesOf(rows)),
     records |-> Len(rows), total |-> SumCounts(rows), top |-> top]

\* lines 561-567 for one recipient: send_message, send_document and, when
\* matplotlib is available, send_photo, in one try block.  For a uid of
\* `down` the send named by `stage` raises and the rest is skipped.
SummarySends(uid, summary, plot, down, stage) ==
    LET msg_ok == ~(uid \in down /\ stage = "message")
        doc_ok == ~(uid \in down /\ stage = "document")
    IN  <<Notify(uid, "monthly", summary, msg_ok)>>
        \o (IF msg_ok
            THEN <<[to |-> uid, via |-> "send_document", tag |-> "monthly",
                    about |-> summary.month, ok |-> doc_ok]>>
            ELSE <<>>)
        \o (IF msg_ok /\ doc_ok /\ plot
            THEN <<[to |-> uid, via |-> "send_photo", tag |-> "monthly",
                    about |-> summary.month, ok |-> TRUE]>>
            ELSE <<>>)

\* the loop of lines 559-569 over the uids of the sequence `uids`
RECURSIVE SummaryLoop(_, _, _, _, _)
SummaryLoop(uids, summary, plot, down, stage) ==
    IF uids = <<>> THEN <<>>
    ELSE SummarySends(Head(uids), summary, plot, down, stage)
         \o SummaryLoop(Tail(uids), summary, plot, down, stage)

\* profiles with summary_enabled (line 560)
OptedIn == {uid \in DOMAIN roles : roles[uid].summary_enabled}

MonthlyFrame == UNCHANGED <<config_handle, io, roles, tasks, pending, reports_csv, sheet,
                            board, user_data, report_conv, post_conv, returned,
                            shown, react_pc, react_req>>

\* `now` is the month the job runs in, `plot` is HAVE_MATPLOTLIB (lines 36-41)
monthly_summary_job(now, plot, down, stage) ==
    LET month_key == PrevMonth(now)
        dfm == MonthRows(reports_csv, month_key)
        upd == Upd("monthly_job", TelegramUser(0, <<>>), 0, now, NoName, "")
    IN  /\ IF dfm = <<>>
           THEN /\ exports' = exports
                /\ Handled(upd, "monthly_summary_job", <<>>)
           ELSE /\ exports' = exports \cup {month_key}
                /\ \E top \in TopChoices(dfm) :
                       Handled(upd, "monthly_summary_job",
                               SummaryLoop(Ascending(OptedIn),
                                           Summary(month_key, dfm, top),
                                           plot, down, stage))
        /\ MonthlyFrame

-----------------------------------------------------------------------------
(* Specification of the monthly job over a bounded set of persisted       *)
(* ledgers.  The ledger never changes while the job runs.                  *)

\* a ledger entry of month `month` by the submitter `name`
LedgerEntry(month, name, cnt) ==
    CsvLine(Row(<<month, 1>>, name, Employee, DEFAULT_TASKS[1], cnt, NoTech))

LedgerRows == {LedgerEntry(1, 1, 2), LedgerEntry(1, 2, 1), LedgerEntry(1, 3, 1),
               LedgerEntry(1, 4, 1), LedgerEntry(2, 1, 1)}

\* reports.csv missing or without rows is <<>>
LedgerFiles == UNION {[1..n -> LedgerRows] : n \in 0..MaxRows}

\* the months the job runs in
JobMonths == {2, 3}

SendStages == {"message", "document"}

\* every profile but that of user 2 has opted in (/toggle_summary)
SummaryFiles ==
    { [u \in Users |-> [Profile(Employee, FALSE) EXCEPT !.summary_enabled = (u # 2)]] }

InitMonthly ==
    /\ config_handle = <<"z">>
    /\ roles \in SummaryFiles
    /\ tasks = DEFAULT_TASKS
    /\ pending = <<>>
    /\ reports_csv \in LedgerFiles
    /\ sheet = <<>>
    /\ board = <<>>
    /\ InitMemory

\* run_monthly fires the job once a month, so a later run is in a later
\* month; the stage matters only when some recipient is down
MonthlyJob ==
    \E now \in JobMonths, plot \in BOOLEAN, down \in DownSets :
        \E stage \in IF down = {} THEN {"message"} ELSE SendStages :
            /\ update.kind = "monthly_job" => now > update.num
            /\ monthly_summary_job(now, plot, down, stage)

NextMonthly == MonthlyJob

SpecMonthly == InitMonthly /\ [][NextMonthly]_vars

-----------------------------------------------------------------------------
(* Specification of the three notification loops: the proposal notice of  *)
(* report_other_name (lines 277-284), the broadcast of a new post (lines   *)
(* 474-479) and the monthly summary (lines 558-569).  The stores start one *)
(* entry below their bounds, so each behaviour holds one proposal and one  *)
(* publication.  Under main's registration no update reaches               *)
(* report_other_name (see Dispatch); its loop is exercised here by         *)
(* applying the handler to a proposal text directly.                       *)

\* roles.json: every user a technologist who has opted in to the summary
FanOutFiles ==
    { [u \in Users |-> [Profile(Technologist, FALSE) EXCEPT !.summary_enabled = TRUE]] }

InitFanOut ==
    /\ config_handle = <<"z">>
    /\ roles \in FanOutFiles
    /\ tasks = DEFAULT_TASKS
    /\ pending = [i \in 1..(MaxPending - 1) |-> Proposal(NewName, 1, <<1, i>>)]
    /\ reports_csv = <<LedgerEntry(1, 1, 2), LedgerEntry(1, 2, 1)>>
    /\ sheet = <<>>
    /\ board = [i \in 1..(MaxPosts - 1) |-> Post(MaxPosts - i, 1, "none", EmptyDict)]
    /\ InitMemory

\* report_other_name run inside the report conversation
ProposalText ==
    \E u \in Users, now \in Dates, down \in DownSets :
        /\ Len(pending) < MaxPending
        /\ report_other_name(Sender(u), NewName, now, down,
                             [cb |-> "report_other_name", conv |-> "report"])

NextFanOut ==
    ProposalText \/ CmdPost \/ PostText \/ PostPhoto \/ PostSkip \/ MonthlyJob

SpecFanOut == InitFanOut /\ [][NextFanOut]_vars

-----------------------------------------------------------------------------
(* Specification of the count step: report_count_received applied to a    *)
(* text of a user whose report draft is one the first wizard steps can     *)
(* leave in user_data.  Under main's registration no update reaches this   *)
(* handler (see Dispatch), so its contract is verified on the handler      *)
(* itself.  The ledger starts one entry below its bound.                   *)

CountTexts == {<<"3">>, <<" ", "3">>, <<"0">>, <<"-", "1">>, <<"a", "b", "c">>}

\* user_data after /report, after the task and reviewer buttons, or untouched
Draft(task, tech) ==
    DictSet(EmptyDict, "report", DictSet(DictSet(EmptyDict, "task", task), "tech", tech))

Drafts == {EmptyDict, DictSet(EmptyDict, "report", EmptyDict),
           Draft(DEFAULT_TASKS[1], NoTech), Draft(DEFAULT_TASKS[1], 1)}

\* reports.csv after k reports of user 1, the first n - 1 of them with
\* reviewer 1 and the n-th with none
RECURSIVE WrittenLedger(_, _)
WrittenLedger(k, n) ==
    IF k = 0 THEN <<>>
    ELSE append_csv_row(WrittenLedger(k - 1, n),
                        Row(<<1, 1>>, 1, Employee, DEFAULT_TASKS[1], k,
                            IF k = n THEN NoTech ELSE 1),
                        TRUE).rows

\* roles.json: every user a technologist
CountFiles == { [u \in Users |-> Profile(Technologist, FALSE)] }

InitCountStep ==
    /\ config_handle = <<"z">>
    /\ roles \in CountFiles
    /\ tasks = DEFAULT_TASKS
    /\ pending = <<>>
    /\ reports_csv = WrittenLedger(MaxRows - 1, MaxRows - 1)
    /\ sheet = <<>>
    /\ board = <<>>
    /\ user_data \in [Users -> Drafts]
    /\ report_conv = [u \in Users |-> REPORT_COUNT]
    /\ post_conv = [u \in Users |-> Idle]
    /\ update = NoUpdate
    /\ handler = "none"
    /\ sent = <<>>
    /\ returned = [u \in Users |-> REPORT_COUNT]
    /\ shown = [to |-> 0, items |-> <<>>]
    /\ react_pc = [u \in Users |-> "idle"]
    /\ react_req = [u \in Users |-> <<0, "">>]
    /\ exports = {}
    /\ io = NoIO

CountText ==
    \E u \in Users, msg \in CountTexts, now \in Dates, csv_ok \in BOOLEAN,
       mirror \in MirrorOutcomes, down \in DownSets :
        /\ Len(reports_csv) < MaxRows
        /\ report_count_received(Sender(u), msg, now, csv_ok, mirror, down,
                                 [cb |-> "report_count_received", conv |-> "report"])

NextCountStep == CountText

SpecCountStep == InitCountStep /\ [][NextCountStep]_vars

-----------------------------------------------------------------------------
(* Catalog and staff commands behind a permission check (lines 378-408 and *)
(* 599-629)                                                                *)

AdminFrame == UNCHANGED <<config_handle, exports, io, pending, reports_csv, sheet, board,
                          user_data, report_conv, post_conv, returned, shown,
                          react_pc, react_req>>

\* /add_task <name>: nargs words follow the command
cmd_add_task(user, nargs, name) ==
    LET upd == Upd("add_task", user, nargs, 0, name, "")
    IN  /\ IF ~has_role_permission(user, Technologist)
           THEN /\ Handled(upd, "cmd_add_task", <<Reply(user.id, "no_access")>>)
                /\ UNCHANGED tasks
           ELSE IF nargs = 0
           THEN /\ Handled(upd, "cmd_add_task", <<Reply(user.id, "usage")>>)
                /\ UNCHANGED tasks
           ELSE IF Contains(tasks, name)
           THEN /\ Handled(upd, "cmd_add_task", <<Reply(user.id, "task_exists")>>)
                /\ UNCHANGED tasks
           ELSE /\ tasks' = Append(tasks, name)
                /\ Handled(upd, "cmd_add_task", <<Reply(user.id, "added")>>)
        /\ UNCHANGED roles
        /\ AdminFrame

\* /remove_task <name>
cmd_remove_task(user, nargs, name) ==
    LET upd == Upd("remove_task", user, nargs, 0, name, "")
    IN  /\ IF ~has_role_permission(user, Technologist)
           THEN /\ Handled(upd, "cmd_remove_task", <<Reply(user.id, "no_access")>>)
                /\ UNCHANGED tasks
           ELSE IF nargs = 0
           THEN /\ Handled(upd, "cmd_remove_task", <<Reply(user.id, "usage")>>)
                /\ UNCHANGED tasks
           ELSE IF ~Contains(tasks, name)
           THEN /\ Handled(upd, "cmd_remove_task", <<Reply(user.id, "no_such_task")>>)
                /\ UNCHANGED tasks
           ELSE /\ tasks' = Remove(tasks, name)
                /\ Handled(upd, "cmd_remove_task", <<Reply(user.id, "removed")>>)
        /\ UNCHANGED roles
        /\ AdminFrame

\* /assign_user USER_ID TECH_ID
cmd_assign_user(user, nargs, user_id, tech_id) ==
    LET upd == Upd("assign_user", user, nargs, user_id, NoName, "")
    IN  /\ IF ~has_role_permission(user, Manager)
           THEN /\ Handled(upd, "cmd_assign_user", <<Reply(user.id, "no_access")>>)
                /\ UNCHANGED roles
           ELSE IF nargs < 2
           THEN /\ Handled(upd, "cmd_assign_user", <<Reply(user.id, "usage")>>)
                /\ UNCHANGED roles
           ELSE IF user_id \notin DOMAIN roles \/ tech_id \notin DOMAIN roles
           THEN /\ Handled(upd, "cmd_assign_user", <<Reply(user.id, "check_id")>>)
                /\ UNCHANGED roles
           ELSE /\ roles' = [roles EXCEPT ![user_id].manager = tech_id]
                /\ Handled(upd, "cmd_assign_user", <<Reply(user.id, "assigned")>>)
        /\ UNCHANGED tasks
        /\ AdminFrame

\* /toggle_summary USER_ID
cmd_toggle_summary(user, nargs, target) ==
    LET upd == Upd("toggle_summary", user, nargs, target, NoName, "")
    IN  /\ IF ~has_role_permission(user, Manager)
           THEN /\ Handled(upd, "cmd_toggle_summary", <<Reply(user.id, "no_access")>>)
                /\ UNCHANGED roles
           ELSE IF nargs = 0
           THEN /\ Handled(upd, "cmd_toggle_summary", <<Reply(user.id, "usage")>>)
                /\ UNCHANGED roles
           ELSE IF target \notin DOMAIN roles
           THEN /\ Handled(upd, "cmd_toggle_summary", <<Reply(user.id, "no_such_user")>>)
                /\ UNCHANGED roles
           ELSE /\ roles' = [roles EXCEPT ![target].summary_enabled = ~@]
                /\ Handled(upd, "cmd_toggle_summary", <<Reply(user.id, "summary_set")>>)
        /\ UNCHANGED tasks
        /\ AdminFrame

-----------------------------------------------------------------------------
(* Specification of the permission-guarded commands and the announcement  *)
(* wizard.  The board starts one post below its bound.                     *)

\* roles.json: user 1 an employee, user 2 a technologist, every other user a
\* manager
StaffFiles ==
    { [u \in Users |-> Profile(IF u = 1 THEN Employee
                               ELSE IF u = 2 THEN Technologist ELSE Manager, FALSE)] }

\* an id no profile is stored for
UnknownId == NumUsers + 1

InitAdmin ==
    /\ config_handle = <<"z">>
    /\ roles \in StaffFiles
    /\ tasks = DEFAULT_TASKS
    /\ pending = <<>>
    /\ reports_csv = <<>>
    /\ sheet = <<>>
    /\ board = [i \in 1..(MaxPosts - 1) |-> Post(MaxPosts - i, 2, "none", EmptyDict)]
    /\ InitMemory

AddTask ==
    \E u \in Users, nargs \in {0, 1} :
        /\ Dispatch("add_task", u).cb = "cmd_add_task"
        /\ cmd_add_task(Sender(u), nargs, IF nargs = 0 THEN NoName ELSE NewName)

RemoveTask ==
    \E u \in Users, nargs \in {0, 1} :
        /\ Dispatch("remove_task", u).cb = "cmd_remove_task"
        /\ cmd_remove_task(Sender(u), nargs, IF nargs = 0 THEN NoName ELSE NewName)

AssignUser ==
    \E u \in Users, nargs \in {1, 2}, user_id \in {1, UnknownId} :
        /\ Dispatch("assign_user", u).cb = "cmd_assign_user"
        /\ cmd_assign_user(Sender(u), nargs, user_id, 2)

ToggleSummary ==
    \E u \in Users, nargs \in {0, 1}, target \in {1, UnknownId} :
        /\ Dispatch("toggle_summary", u).cb = "cmd_toggle_summary"
        /\ cmd_toggle_summary(Sender(u), nargs, IF nargs = 0 THEN 0 ELSE target)

NextAdmin ==
    \/ AddTask \/ RemoveTask \/ AssignUser \/ ToggleSummary
    \/ CmdPost \/ PostText \/ PostPhoto \/ PostSkip

SpecAdmin == InitAdmin /\ [][NextAdmin]_vars

-----------------------------------------------------------------------------
(* Specification of the task catalog: /add_task and /remove_task next to   *)
(* approve and reject presses on a pending_tasks.json kept from earlier    *)
(* runs.                                                                   *)

\* " ".join(context.args), lines 385 and 401
RECURSIVE JoinArgs(_)
JoinArgs(args) ==
    IF args = <<>> THEN <<>>
    ELSE IF Len(args) = 1 THEN args[1]
    ELSE args[1] \o <<" ">> \o JoinArgs(Tail(args))

\* context.args: the words after the command, none of them empty
CatalogArgs == {<<>>, <<NewName>>, <<DEFAULT_TASKS[1]>>, << <<"w">>, <<"i", "n">> >>}

\* pending_tasks.json: proposals of one new name, the last one of a name
\* the catalog holds
CatalogPendingFiles ==
    { [i \in 1..MaxPending |->
          Proposal(IF i = MaxPending THEN DEFAULT_TASKS[1] ELSE NewName,
                   1 + (i % NumUsers), <<1, i>>)] }

InitCatalog ==
    /\ config_handle = <<"z">>
    /\ roles \in ReviewerFiles
    /\ tasks = DEFAULT_TASKS
    /\ pending \in CatalogPendingFiles
    /\ reports_csv = <<>>
    /\ sheet = <<>>
    /\ board = <<>>
    /\ InitMemory

CatalogAdd ==
    \E u \in Users, args \in CatalogArgs :
        /\ Dispatch("add_task", u).cb = "cmd_add_task"
        /\ cmd_add_task(Sender(u), Len(args), JoinArgs(args))

CatalogRemove ==
    \E u \in Users, args \in CatalogArgs :
        /\ Dispatch("remove_task", u).cb = "cmd_remove_task"
        /\ cmd_remove_task(Sender(u), Len(args), JoinArgs(args))

CatalogDecision ==
    \E u \in Users, action \in {"approve", "reject"}, idx \in 0..(MaxPending - 1) :
        /\ Dispatch("pending", u).cb = "pending_action_cb"
        /\ pending_action_cb(Sender(u), action, idx, {})

NextCatalog == CatalogAdd \/ CatalogRemove \/ CatalogDecision

SpecCatalog == InitCatalog /\ [][NextCatalog]_vars

-----------------------------------------------------------------------------
(* Reference definitions for the permission claims *)

\* every user with every handle of Handles
UserObjs == {TelegramUser(u, h) : u \in Users, h \in Handles}

\* every user with each handle the updates of SpecPerm carry
Callers == {TelegramUser(u, h) : u \in Users, h \in ActorHandles}

\* the fixed total order employee < technologist < manager
RoleOrder == <<Employee, Technologist, Manager>>
Rank(r) == CHOOSE i \in DOMAIN RoleOrder : RoleOrder[i] = r

\* a handle with its leading markers stripped, compared without case
Norm(h) == lower(lstrip(h))
FlagAuthority(uid) == \E k \in DOMAIN roles : k = uid /\ roles[k].is_superadmin = TRUE
HandleAuthority(h) == h # <<>> /\ Norm(h) = Norm(config_handle)

\* C7: a superadmin passes every permission check; a user who is not
\* superadmin and has no stored profile is refused for every required role;
\* a user who is not superadmin and whose stored role is r1 is allowed the
\* required role r2 exactly when r1 >= r2 in employee < technologist < manager.
C7_PermissionFollowsRoleOrder ==
    \A user \in Callers, r2 \in RoleNames :
        LET allowed == has_role_permission(user, r2)
        IN  /\ is_superadmin(user) => allowed
            /\ (~is_superadmin(user) /\ user.id \notin DOMAIN roles) => ~allowed
            /\ (~is_superadmin(user) /\ user.id \in DOMAIN roles
                    /\ roles[user.id].role \in RoleNames)
                 => (allowed <=> Rank(roles[user.id].role) >= Rank(r2))

\* C7 witness: /add_user has stored a technologist who is not superadmin and
\* who is allowed technologist and refused manager, next to a user without a
\* profile who is refused employee.
C7_Witness ==
    /\ handler = "cmd_add_user"
    /\ \E user \in Callers :
        /\ ~is_superadmin(user)
        /\ user.id \in DOMAIN roles
        /\ roles[user.id].role = Technologist
        /\ has_role_permission(user, Technologist)
        /\ ~has_role_permission(user, Manager)
    /\ \E user \in Callers :
        /\ ~is_superadmin(user)
        /\ user.id \notin DOMAIN roles
        /\ ~has_role_permission(user, Employee)

\* C8: is_superadmin(user) is true exactly when the stored profile carries
\* the superadmin flag or the handle, stripped of leading markers and
\* compared without case, equals the configured handle.
C8_SuperadminIsFlagOrHandle ==
    \A user \in UserObjs :
        is_superadmin(user) <=> (FlagAuthority(user.id) \/ HandleAuthority(user.username))

\* C8 witness: /add_user was accepted from a sender without a handle (the
\* flag alone sufficed) while another user without the flag is superadmin by
\* a handle written with a marker and in another case than configured, and
\* a user with neither is not superadmin.
C8_Witness ==
    /\ handler = "cmd_add_user"
    /\ Len(sent) = 1 /\ sent[1].tag = "user_added"
    /\ update.username = <<>>
    /\ \E user \in UserObjs :
        /\ ~FlagAuthority(user.id)
        /\ user.username # <<>>
        /\ user.username # config_handle
        /\ Head(user.username) = "@"
        /\ is_superadmin(user)
    /\ \E user \in UserObjs :
        /\ user.id \notin DOMAIN roles
        /\ user.username # <<>>
        /\ ~is_superadmin(user)

-----------------------------------------------------------------------------
(* Report wizard claims, stated on the steps of SpecReport.  A user "is in *)
(* EnterCount" (OtherTaskName) when the last report callback that ran for  *)
(* that user returned REPORT_COUNT (REPORT_OTHER_NAME), that is, when the  *)
(* bot has asked that user for the count (for the task name).              *)

SendsText(u, msg) == update' = Upd("text", Sender(u), 0, 0, msg, "")

CatalogNames == {tasks[i] : i \in DOMAIN tasks}

\* the replies and the bot.send_message attempts among the outbound messages
RepliesTo(msgs, u, tag) == {i \in DOMAIN msgs : msgs[i] = Reply(u, tag)}
SendAttempts(msgs) == {i \in DOMAIN msgs : msgs[i].via = "send_message"}

\* C1: when a user has issued /report, pressed a catalog task button and the
\* "no reviewer" button, and then sends the text "3", the step appends exactly
\* one row to reports.csv, with that task, count 3 and an empty reviewer, the
\* user gets one confirmation and no bot.send_message is attempted.
C1_ReportIsRecorded ==
    [][\A u \in Users :
        ( /\ returned[u] = REPORT_COUNT
          /\ "report" \in DOMAIN user_data[u]
          /\ DOMAIN user_data[u]["report"] = {"task", "tech"}
          /\ user_data[u]["report"]["task"] \in CatalogNames
          /\ user_data[u]["report"]["tech"] = NoTech
          /\ SendsText(u, <<"3">>) )
        => /\ Len(reports_csv') = Len(reports_csv) + 1
           /\ SubSeq(reports_csv', 1, Len(reports_csv)) = reports_csv
           /\ reports_csv'[Len(reports_csv')].count = 3
           /\ reports_csv'[Len(reports_csv')].tech = NoTech
           /\ reports_csv'[Len(reports_csv')].task = user_data[u]["report"]["task"]
           /\ Cardinality(RepliesTo(sent', u, "recorded")) = 1
           /\ SendAttempts(sent') = {}
      ]_vars

\* C2: when a user who has been asked for the count sends a text that is not
\* an integer, the user stays at the count step and is asked for a number
\* again, and reports.csv and the remote sheet are unchanged.
C2_NonNumericCountReprompts ==
    [][\A u \in Users, msg \in Texts :
        ( /\ returned[u] = REPORT_COUNT
          /\ ~IsInt(strip(msg))
          /\ "report" \in DOMAIN user_data[u]
          /\ SendsText(u, msg) )
        => /\ returned'[u] = REPORT_COUNT
           /\ sent' = <<Reply(u, "enter_number")>>
           /\ reports_csv' = reports_csv
           /\ sheet' = sheet
      ]_vars

\* C3: when a user who took the "Other" path and has been asked for the task
\* name sends a non-empty name, the step appends exactly one proposal (that
\* name, that user) to the tail of the pending queue and attempts a
\* notification to every technologist and manager profile.
C3_ProposalIsQueued ==
    [][\A u \in Users, msg \in Texts :
        ( /\ returned[u] = REPORT_OTHER_NAME
          /\ "report" \in DOMAIN user_data[u]
          /\ strip(msg) # <<>>
          /\ SendsText(u, msg) )
        => /\ \E d \in Dates : pending' = Append(pending, Proposal(strip(msg), u, d))
           /\ {sent'[i].to : i \in SendAttempts(sent')} = Reviewers
      ]_vars

-----------------------------------------------------------------------------
(* Moderation claims, stated on the steps of SpecModeration; the claim on  *)
(* stale listings is stated on the steps of SpecReview                    *)

Presses(u, action, idx) == update' = Upd("pending", Sender(u), 0, idx, NoName, action)

Entries(queue) == {queue[i] : i \in DOMAIN queue}

\* C4: approve(idx) and reject(idx) with 0 <= idx < len(queue) remove exactly
\* the entry at position idx and keep the others in order; approve leaves the
\* catalog as it is when the name is already there and appends the name
\* otherwise; reject leaves the catalog unchanged; one decision is sent, to
\* the submitter of the removed entry; the removed entry is gone, and no
\* entry that is not in the queue comes back, so none is decided twice.
C4_DecisionRemovesExactlyThatEntry ==
    [][\A u \in Users, action \in {"approve", "reject"}, idx \in 0..MaxPending :
        (Presses(u, action, idx) /\ idx < Len(pending))
        => LET entry == pending[idx + 1]
           IN  /\ Len(pending') = Len(pending) - 1
               /\ pending = SubSeq(pending', 1, idx) \o <<entry>>
                              \o SubSeq(pending', idx + 1, Len(pending'))
               /\ entry \notin Entries(pending')
               /\ Entries(pending') \subseteq Entries(pending)
               /\ action = "reject" => tasks' = tasks
               /\ (action = "approve" /\ entry.name \in CatalogNames) => tasks' = tasks
               /\ (action = "approve" /\ entry.name \notin CatalogNames)
                    => tasks' = Append(tasks, entry.name)
               /\ Cardinality(SendAttempts(sent')) = 1
               /\ \A i \in SendAttempts(sent') :
                    /\ sent'[i].to = entry.user_id
                    /\ sent'[i].about = entry.name
                    /\ sent'[i].tag = IF action = "approve" THEN "approved" ELSE "rejected"
      ]_vars

\* C4 witness: the middle one of three proposals, with a name new to the
\* catalog, has been approved: two proposals are left and the catalog has
\* grown by that name.
C4_Witness ==
    /\ handler = "pending_action_cb"
    /\ update.word = "approve" /\ update.num = 1
    /\ Len(pending) = 2
    /\ tasks = Append(DEFAULT_TASKS, NewName)
    /\ \E i \in DOMAIN sent : sent[i].tag = "approved" /\ sent[i].about = NewName

\* C5: approve(idx) and reject(idx) with idx < 0 or idx >= len(queue) answer
\* with a refusal, leave the queue and the catalog unchanged and attempt no
\* notification.
C5_OutOfRangeIsRefused ==
    [][\A u \in Users, action \in {"approve", "reject"}, idx \in -1..MaxPending :
        (Presses(u, action, idx) /\ (idx < 0 \/ idx >= Len(pending)))
        => /\ sent' = <<Reply(u, "bad_index")>>
           /\ pending' = pending
           /\ tasks' = tasks
           /\ SendAttempts(sent') = {}
      ]_vars

\* C5 witness: a press with idx = len(queue) on a queue that is not empty, and
\* one with idx = -1, were refused.
C5_Witness ==
    /\ handler = "pending_action_cb"
    /\ sent = <<Reply(update.id, "bad_index")>>
    /\ pending # <<>>
    /\ update.num \in {-1, Len(pending)}

\* C6: when the queue has shifted at or before position idx since it was
\* listed to a reviewer, that reviewer's approve or reject of the listed
\* button idx is refused and changes neither the queue nor the catalog: it
\* never decides another proposal than the one listed at idx.
C6_StaleIndexIsRefused ==
    [][\A u \in Users, action \in {"approve", "reject"}, idx \in 0..MaxPending :
        ( /\ Presses(u, action, idx)
          /\ shown.to = u
          /\ idx < Len(shown.items)
          /\ (idx >= Len(pending) \/ pending[idx + 1] # shown.items[idx + 1]) )
        => /\ pending' = pending
           /\ tasks' = tasks
           /\ sent' = <<Reply(u, "bad_index")>>
      ]_vars

-----------------------------------------------------------------------------
(* Reaction claims *)

PostIds(posts) == {posts[i].id : i \in DOMAIN posts}
ReactorList(posts, pid, em) == DictGet(posts[FindPost(posts, pid)].reactions, em, <<>>)
ReactorSet(posts, pid, em) ==
    {ReactorList(posts, pid, em)[i] : i \in DOMAIN ReactorList(posts, pid, em)}

\* what react_cb makes of the board for an existing post
Toggled(posts, pid, em, uid) == toggle_reaction(posts, FindPost(posts, pid), em, uid)

NoDuplicates(list) == \A i, j \in DOMAIN list : list[i] = list[j] => i = j

OthersKept(before, after, pid, em) ==
    /\ PostIds(after) = PostIds(before)
    /\ \A q \in PostIds(before), e \in Emojis :
        (q # pid \/ e # em) => ReactorList(after, q, e) = ReactorList(before, q, e)

\* C9: in every reachable board, for every existing post p, emoji e and user
\* u: no reactor list holds a uid twice; one toggle flips the membership of u
\* in the reactor set of (p, e) and nothing else; a second toggle gives back
\* the reactor set of (p, e); the lists of all other (post, emoji) pairs are
\* the same after one and after two toggles.
C9_ToggleTwiceRestores ==
    \A pid \in PostIds(board), em \in Emojis, uid \in Users :
        LET once == Toggled(board, pid, em, uid)
            twice == Toggled(once, pid, em, uid)
            was == ReactorSet(board, pid, em)
        IN  /\ NoDuplicates(ReactorList(board, pid, em))
            /\ NoDuplicates(ReactorList(once, pid, em))
            /\ ReactorSet(once, pid, em) =
                 IF uid \in was THEN was \ {uid} ELSE was \cup {uid}
            /\ ReactorSet(twice, pid, em) = was
            /\ OthersKept(board, once, pid, em)
            /\ OthersKept(board, twice, pid, em)

\* C9 witness: react_cb has just saved a reaction on post 1 whose reactor
\* list for one emoji holds the user while the post has no list for the
\* other emoji, and the other post carries reactions of its own.
C9_Witness ==
    /\ handler = "react_cb"
    /\ sent = <<Reply(update.id, "reaction_saved")>>
    /\ Len(board) = 2
    /\ update.id \in ReactorSet(board, 1, update.word)
    /\ \E e \in Emojis : e \notin DOMAIN board[FindPost(board, 1)].reactions
    /\ ReactorList(board, 2, "thumb") # <<>>

\* the step in which the suspended react_cb of u resumes on an existing post
Resumes(u) ==
    /\ react_pc[u] = "answering"
    /\ react_pc'[u] = "idle"
    /\ FindPost(board, react_req[u][1]) # 0

\* C10: whenever a react_cb resumes, whatever other callbacks are suspended
\* or have run since it started, it flips the membership of its own user in
\* the stored reactor set of its (post, emoji) and changes nothing else, so no
\* toggle of another user is lost; and in every reachable board the toggles
\* of two distinct users on the same (post, emoji) give the same reactor set in
\* either order.
C10_TogglesOfTwoUsersCommute ==
    /\ [][\A u \in Users :
            Resumes(u) =>
                LET pid == react_req[u][1]
                    em == react_req[u][2]
                    was == ReactorSet(board, pid, em)
                IN  /\ ReactorSet(board', pid, em) =
                         IF u \in was THEN was \ {u} ELSE was \cup {u}
                    /\ OthersKept(board, board', pid, em)
       ]_vars
    /\ [](\A pid \in PostIds(board), em \in Emojis, u1 \in Users, u2 \in Users :
            u1 # u2 =>
                ReactorSet(Toggled(Toggled(board, pid, em, u1), pid, em, u2), pid, em)
                  = ReactorSet(Toggled(Toggled(board, pid, em, u2), pid, em, u1), pid, em))

\* C10 witness: the react_cb of one user has saved its toggle on (post 1, e)
\* while the react_cb of another user for the same (post 1, e) is still
\* suspended, and the reactor list holds both users.
C10_Witness ==
    /\ handler = "react_cb"
    /\ sent = <<Reply(update.id, "reaction_saved")>>
    /\ \E u2 \in Users :
        /\ u2 # update.id
        /\ react_pc[u2] = "answering"
        /\ react_req[u2] = <<1, update.word>>
        /\ update.num = 1
        /\ {update.id, u2} \subseteq ReactorSet(board, 1, update.word)

-----------------------------------------------------------------------------
(* Announcement claims, stated on the steps of SpecPost *)

\* the step in which u publishes: post_photo_received or post_skip_photo ran
Publishes(u) ==
    /\ handler' \in {"post_photo_received", "post_skip_photo"}
    /\ update'.id = u
    /\ update'.kind \in {"photo", "skip"}

MaxId(posts) ==
    CHOOSE m \in {posts[i].id : i \in DOMAIN posts} : \A i \in DOMAIN posts : posts[i].id <= m

\* C11: a publish on an empty board assigns id 1 and every other publish
\* assigns the largest existing id + 1; the new post becomes the first
\* element, in front of the unchanged earlier posts, with the publisher as
\* author and with or without media as sent; and in every reachable state
\* the ids strictly decrease from head to tail, so all ids are distinct.
C11_BoardIdsDecreaseFromHead ==
    /\ [][\A u \in Users :
            Publishes(u) =>
                /\ board' # <<>>
                /\ Tail(board') = board
                /\ Head(board').id = IF board = <<>> THEN 1 ELSE MaxId(board) + 1
                /\ Head(board').author = u
                /\ Head(board').photo = IF update'.kind = "photo" THEN "file" ELSE "none"
       ]_vars
    /\ [](\A i, j \in DOMAIN board : i < j => board[i].id > board[j].id)

\* C11 witness: a third post has just been published, its id is 3, and the
\* two newest posts are by different authors, one with and one without media.
C11_Witness ==
    /\ handler \in {"post_photo_received", "post_skip_photo"}
    /\ Len(board) = 3
    /\ board[1].id = 3 /\ board[2].id = 2 /\ board[3].id = 1
    /\ board[1].author = update.id
    /\ board[1].author # board[2].author
    /\ board[1].photo # board[2].photo

\* the states in which a wizard waits for more input from the user
InPostWizard(u) == post_conv[u] \in {POST_TEXT, POST_PHOTO}
InReportWizard(u) ==
    \/ report_conv[u] \in {REPORT_CHOOSE_TASK, REPORT_OTHER_NAME,
                           REPORT_SELECT_TECH, REPORT_COUNT}
    \/ returned[u] \in {REPORT_CHOOSE_TASK, REPORT_OTHER_NAME,
                        REPORT_SELECT_TECH, REPORT_COUNT}

\* C18: /cancel sent by a user whose report or announcement wizard waits
\* for input ends that user's session (no conversation state is kept),
\* discards the input gathered so far (user_data holds neither the report
\* nor the draft text), and changes none of the identity, catalog, queue,
\* ledger and board stores.
C18_CancelEndsAndDiscards ==
    [][\A u \in Users :
        ( /\ update'.kind = "cancel"
          /\ update'.id = u
          /\ (InPostWizard(u) \/ InReportWizard(u)) )
        => /\ post_conv'[u] = Idle
           /\ report_conv'[u] = Idle
           /\ "post_text" \notin DOMAIN user_data'[u]
           /\ "report" \notin DOMAIN user_data'[u]
           /\ UNCHANGED <<roles, tasks, pending, reports_csv, sheet, board>>
      ]_vars

-----------------------------------------------------------------------------
(* Claims about the monthly job *)

\* the job ran in its latest step
JobRan == handler' = "monthly_summary_job" /\ update'.kind = "monthly_job"

\* the ledger entries dated in the month before `now`, in ledger order
TargetEntries(now) ==
    SelectSeq(reports_csv, LAMBDA r : r.date[1] = now - 1)

\* C12: when the monthly job runs and the ledger has no entry dated in the
\* previous calendar month (ledger missing, empty, or holding only other
\* months), the job writes no export snapshot, sends no message, document or
\* image to anyone, and changes no store.
C12_EmptyMonthDoesNothing ==
    [][(JobRan /\ TargetEntries(update'.num) = <<>>)
        => /\ exports' = exports
           /\ sent' = <<>>
           /\ UNCHANGED <<roles, tasks, pending, reports_csv, sheet, board>>]_vars

\* the job has run over a ledger that holds entries, all of other months
C12_Witness ==
    /\ handler = "monthly_summary_job"
    /\ reports_csv # <<>>
    /\ TargetEntries(update.num) = <<>>
    /\ sent = <<>>
    /\ exports = {}

\* the reference summary of C13 over the entries `rows`
RECURSIVE RefTotal(_, _)
RefTotal(rows, S) ==
    IF S = {} THEN 0
    ELSE LET i == CHOOSE x \in S : TRUE
         IN  rows[i].count + RefTotal(rows, S \ {i})

RefNames(rows) == {rows[i].name : i \in DOMAIN rows}

RefSum(rows, n) == RefTotal(rows, {i \in DOMAIN rows : rows[i].name = n})

FirstSeen(rows, n) ==
    CHOOSE i \in DOMAIN rows :
        rows[i].name = n /\ \A j \in 1..(i - 1) : rows[j].name # n

\* name a comes before name b: larger sum, or equal sums and seen first
ComesBefore(rows, a, b) ==
    \/ RefSum(rows, a) > RefSum(rows, b)
    \/ RefSum(rows, a) = RefSum(rows, b) /\ FirstSeen(rows, a) < FirstSeen(rows, b)

RefTop(rows) ==
    LET k == IF Cardinality(RefNames(rows)) < 3 THEN Cardinality(RefNames(rows)) ELSE 3
        At(i) == CHOOSE n \in RefNames(rows) :
                    Cardinality({m \in RefNames(rows) : ComesBefore(rows, m, n)}) = i - 1
    IN  [i \in 1..k |-> <<At(i), RefSum(rows, At(i))>>]

RefSummary(now, rows) ==
    [month |-> now - 1, users |-> Cardinality(RefNames(rows)), records |-> Len(rows),
     total |-> RefTotal(rows, DOMAIN rows), top |-> RefTop(rows)]

\* C13: for a non-empty set of ledger entries in the previous month, the
\* summary the job sends equals the reference: total = sum of counts,
\* records = number of entries, distinct submitters = number of different
\* names, top-3 = the three names with the largest summed count in
\* descending order, names with equal sums in the order of their first
\* occurrence in the ledger.
C13_SummaryEqualsReference ==
    [][(JobRan /\ TargetEntries(update'.num) # <<>>)
        => \A i \in DOMAIN sent' :
              sent'[i].via = "send_message"
                  => sent'[i].about = RefSummary(update'.num, TargetEntries(update'.num))]_vars

\* the totals of C13 without the order of the top three: they do equal the
\* reference
C13_TotalsEqualReference ==
    [][(JobRan /\ TargetEntries(update'.num) # <<>>)
        => \A i \in DOMAIN sent' :
              sent'[i].via = "send_message"
                  => LET rows == TargetEntries(update'.num)
                     IN  /\ sent'[i].about.total = RefTotal(rows, DOMAIN rows)
                         /\ sent'[i].about.records = Len(rows)
                         /\ sent'[i].about.users = Cardinality(RefNames(rows))
                         /\ sent'[i].about.month = update'.num - 1]_vars

-----------------------------------------------------------------------------
(* Claim about the notification loops *)

\* the delivery attempts of the latest step to the recipient r
AttemptsTo(msgs, r) == {i \in DOMAIN msgs : msgs[i].via = "send_message" /\ msgs[i].to = r}

\* every recipient of S gets exactly one attempt, whatever became of the
\* others
OneAttemptEach(msgs, S) == \A r \in S : Cardinality(AttemptsTo(msgs, r)) = 1

\* the last message of the step is the confirmation to the initiating user
Confirms(msgs, u, tag) ==
    /\ msgs # <<>>
    /\ msgs[Len(msgs)] = [to |-> u, via |-> "reply", tag |-> tag, about |-> <<>>, ok |-> TRUE]

\* C14: in each notification loop (proposal notice to technologists and
\* managers, broadcast of a new post to all profiles, monthly summary to
\* opted-in profiles) a delivery failure for one recipient does not prevent
\* the attempt to every other recipient, is not retried, and does not abort
\* the operation: the proposal or post stays stored and the initiating user
\* still gets the confirmation.
C14_BestEffortFanOut ==
    [][/\ \A u \in Users :
            (handler' = "report_other_name" /\ update'.id = u
                                            /\ pending' # pending)
                => /\ OneAttemptEach(sent', {r \in Users :
                                        roles[r].role \in {"technologist", "manager"}})
                   /\ Len(pending') = Len(pending) + 1
                   /\ pending'[Len(pending')].user_id = u
                   /\ Confirms(sent', u, "proposal_sent")
       /\ \A u \in Users :
            (handler' \in {"post_photo_received", "post_skip_photo"}
                                            /\ update'.id = u)
                => /\ OneAttemptEach(sent', DOMAIN roles)
                   /\ Len(board') = Len(board) + 1
                   /\ Confirms(sent', u, "published")
       /\ (handler' = "monthly_summary_job" /\ sent' # <<>>)
                => /\ OneAttemptEach(sent', {r \in Users : roles[r].summary_enabled})
                   /\ (update'.num - 1) \in exports']_vars

\* a post was broadcast, the send to the first recipient raised, a later
\* recipient was still tried, and the author got the confirmation
C14_Witness ==
    /\ handler \in {"post_photo_received", "post_skip_photo"}
    /\ \E i, j \in DOMAIN sent :
          /\ i < j
          /\ sent[i].via = "send_message" /\ ~sent[i].ok
          /\ sent[j].via = "send_message" /\ sent[j].to # sent[i].to
    /\ Confirms(sent, update.id, "published")
    /\ Len(board) = MaxPosts

\* the same for the proposal notice ...
C14_ProposalLoopFails ==
    /\ handler = "report_other_name"
    /\ \E i, j \in DOMAIN sent :
          /\ i < j
          /\ sent[i].via = "send_message" /\ ~sent[i].ok
          /\ sent[j].via = "send_message" /\ sent[j].to # sent[i].to
    /\ Confirms(sent, update.id, "proposal_sent")
    /\ Len(pending) = MaxPending

\* ... and for the monthly summary, at either stage
C14_MonthlyLoopFails ==
    /\ handler = "monthly_summary_job"
    /\ \E i, j \in DOMAIN sent :
          /\ i < j
          /\ ~sent[i].ok
          /\ sent[j].via = "send_message" /\ sent[j].to # sent[i].to

-----------------------------------------------------------------------------
(* Claims about the count step *)

\* the count step ran on an integer text of user u in the latest step
CountStepBy(u) == handler' = "report_count_received" /\ update'.id = u /\ io' # NoIO

\* the reviewer the draft of user u names, 0 when there is none
AssignedReviewer(u) ==
    IF "report" \in DOMAIN user_data[u] /\ "tech" \in DOMAIN user_data[u]["report"]
    THEN user_data[u]["report"]["tech"] ELSE 0

C16_MirrorFailureSwallowed ==
    [][\A u \in Users :
        (CountStepBy(u) /\ io'.csv = "ok" /\ io'.mirror \in {"absent", "raises"})
            => /\ Len(reports_csv') = Len(reports_csv) + 1
               /\ reports_csv'[Len(reports_csv')].name = u
               /\ sheet' = sheet
               /\ sent'[1] = [to |-> u, via |-> "reply", tag |-> "recorded",
                              about |-> <<>>, ok |-> TRUE]
               /\ AssignedReviewer(u) # 0
                    => \E i \in DOMAIN sent' :
                          sent'[i].via = "send_message" /\ sent'[i].to = AssignedReviewer(u)
               /\ returned'[u] = "END"
               /\ report_conv'[u] = "Idle"]_vars

\* the mirror raised, the entry is in the ledger and the reviewer was told
C16_Witness ==
    /\ handler = "report_count_received"
    /\ io = [csv |-> "ok", mirror |-> "raises"]
    /\ Len(reports_csv) = MaxRows
    /\ sheet = <<>>
    /\ Len(sent) = 2 /\ sent[2].via = "send_message"
    /\ report_conv[update.id] = "Idle"

-----------------------------------------------------------------------------
(* Claims about permission denial *)

\* the rank a command requires: technologist for the catalog commands and
\* the announcement wizard, manager for the staff commands
RequiredRank(kind) ==
    CASE kind \in {"add_task", "remove_task", "post"} -> 2
      [] kind \in {"assign_user", "toggle_summary"} -> 3
      [] OTHER -> 0

\* the caller of the latest update is not superadmin and holds a role below
\* the rank its command requires
BelowRequired(u) ==
    /\ update'.id = u
    /\ ~FlagAuthority(u) /\ ~HandleAuthority(update'.username)
    /\ u \in DOMAIN roles
    /\ Rank(roles[u].role) < RequiredRank(update'.kind)

\* C19: when a caller who is not superadmin and whose role ranks below the
\* required one invokes add-task, remove-task or the announcement wizard
\* (technologist), or assign-manager or toggle-summary (manager), the caller
\* gets a refusal, the stores are unchanged and no announcement session is
\* created, so such a caller never causes a post to be published.
C19_DenialMutatesNothing ==
    /\ [][\A u \in Users :
            BelowRequired(u)
                => /\ sent' = <<[to |-> u, via |-> "reply", tag |-> "no_access",
                                 about |-> <<>>, ok |-> TRUE]>>
                   /\ UNCHANGED <<roles, tasks, pending, reports_csv, sheet, board>>
                   /\ post_conv'[u] = post_conv[u]
                   /\ update'.kind = "post" => post_conv'[u] = "Idle"]_vars
    /\ [][board' # board
            => /\ update'.id = board'[1].author
               /\ Rank(roles[board'[1].author].role) >= 2]_vars

\* an employee asked to add a name the catalog lacks and was refused
C19_Witness ==
    /\ handler = "cmd_add_task"
    /\ roles[update.id].role = "employee"
    /\ update.nargs = 1
    /\ ~Contains(tasks, update.name)
    /\ sent = <<[to |-> update.id, via |-> "reply", tag |-> "no_access",
                 about |-> <<>>, ok |-> TRUE]>>

\* an employee asked for the announcement wizard, was refused and has no
\* session
C19_PostRefused ==
    /\ handler = "cmd_post"
    /\ roles[update.id].role = "employee"
    /\ Len(sent) = 1 /\ sent[1].tag = "no_access"
    /\ post_conv[update.id] = "Idle"

\* a technologist asked for a manager assignment between stored profiles and
\* was refused
C19_AssignRefused ==
    /\ handler = "cmd_assign_user"
    /\ roles[update.id].role = "technologist"
    /\ update.nargs = 2 /\ update.num \in DOMAIN roles
    /\ Len(sent) = 1 /\ sent[1].tag = "no_access"

-----------------------------------------------------------------------------
(* Claim about who moderates *)

\* C20: an approve or reject event sent by a user who is not superadmin and
\* whose role is below technologist, or who has no profile, never removes an
\* entry from the pending queue and never adds a name to the task catalog.
C20_OnlySupervisorsModerate ==
    [][\A u \in Users :
        (/\ handler' = "pending_action_cb"
         /\ update'.id = u
         /\ ~FlagAuthority(u) /\ ~HandleAuthority(update'.username)
         /\ (u \in DOMAIN roles => Rank(roles[u].role) < 2))
            => pending' = pending /\ tasks' = tasks]_vars

-----------------------------------------------------------------------------
(* Claims about the report session, stated on the steps of SpecReport *)

\* C21: /report from a user without a report session creates a session for
\* that user in ChooseTask, and the task-button, reviewer-button and count
\* text events of that user then go to the handlers of the session's state.
C21_ReportCommandOpensSession ==
    [][\A u \in Users :
        /\ (update'.kind = "report" /\ update'.id = u /\ report_conv[u] = "Idle")
              => report_conv'[u] = "REPORT_CHOOSE_TASK"
        /\ (update'.kind = "text" /\ update'.id = u /\ returned[u] = "REPORT_COUNT")
              => handler' = "report_count_received"]_vars

\* the step of the wizard a user is at: the value the last report callback
\* returned for that user, a finished or never started wizard being "Idle"
WizardStep(ret, u) == IF ret[u] = "END" THEN "Idle" ELSE ret[u]

\* the edges of C22, with the event that drives each
ReportEdge(from, to, upd) ==
    \/ from = "Idle" /\ to = "REPORT_CHOOSE_TASK" /\ upd.kind = "report"
    \/ from = "REPORT_CHOOSE_TASK" /\ to = "REPORT_OTHER_NAME"
            /\ upd.kind = "task" /\ upd.name = <<"o", "t", "h", "e", "r">>
    \/ from = "REPORT_CHOOSE_TASK" /\ to = "REPORT_SELECT_TECH"
            /\ upd.kind = "task" /\ upd.name # <<"o", "t", "h", "e", "r">>
    \/ from = "REPORT_OTHER_NAME" /\ to = "REPORT_COUNT" /\ upd.kind = "text"
    \/ from = "REPORT_SELECT_TECH" /\ to = "REPORT_COUNT" /\ upd.kind = "tech"
    \/ from = "REPORT_COUNT" /\ to = "Idle" /\ upd.kind = "text"

\* C22: a report session only moves along ChooseTask -> OtherTaskName
\* (button "other"), ChooseTask -> SelectReviewer (catalog task button),
\* OtherTaskName -> EnterCount (non-empty name), SelectReviewer -> EnterCount
\* (reviewer or "none" button), EnterCount -> terminal (integer text), plus
\* self-loops on rejected input and cancel; a ledger entry is appended only
\* on the edge EnterCount -> terminal, and one event causes at most one
\* transition.
C22_SessionFollowsEdges ==
    [][/\ \A u \in Users :
            WizardStep(returned', u) # WizardStep(returned, u)
                => /\ update'.id = u
                   /\ ReportEdge(WizardStep(returned, u), WizardStep(returned', u), update')
       /\ reports_csv' # reports_csv
            => /\ WizardStep(returned, update'.id) = "REPORT_COUNT"
               /\ WizardStep(returned', update'.id) = "Idle"]_vars

-----------------------------------------------------------------------------
(* Claim about the stored roles, stated on the states of SpecPerm *)

\* C23: in every reachable state every stored profile's role is one of
\* employee, technologist and manager, whatever operations were performed
\* with whatever arguments.
C23_StoredRolesAreDefined ==
    \A uid \in DOMAIN roles : roles[uid].role \in {"employee", "technologist", "manager"}

-----------------------------------------------------------------------------
(* Claim about the task catalog, stated on the states of SpecCatalog *)

\* C24: in every reachable state the task catalog holds no name twice and no
\* empty name, after any sequence of add-task, remove-task, approve and
\* reject; approving a proposal whose name is already in the catalog is
\* ignored and approving two proposals of one name adds it once.
C24_CatalogNamesUniqueNonEmpty ==
    /\ \A i, j \in DOMAIN tasks : tasks[i] = tasks[j] => i = j
    /\ \A i \in DOMAIN tasks : tasks[i] # <<>>

\* a proposal whose name the catalog already held was approved, and the
\* catalog is as it was at the start
C24_Witness ==
    /\ handler = "pending_action_cb"
    /\ update.word = "approve"
    /\ Len(sent) = 2 /\ sent[1].tag = "approved"
    /\ sent[1].about = <<"f", "l", "o", "o", "r">>
    /\ tasks = << <<"f", "l", "o", "o", "r">>, <<"f", "l", "o", "w", "e", "r", "s">>,
                  <<"m", "e", "b", "e", "l">> >>

\* two proposals of one new name were approved and the name is there once
C24_TwoApprovalsOneName ==
    /\ handler = "pending_action_cb"
    /\ update.word = "approve"
    /\ sent[1].about = <<"w", "i", "n">>
    /\ Len(pending) <= MaxPending - 2
    /\ \A i \in DOMAIN pending : pending[i].name # <<"w", "i", "n">>
    /\ Cardinality({i \in DOMAIN tasks : tasks[i] = <<"w", "i", "n">>}) = 1

-----------------------------------------------------------------------------
(* Claims about the ledger, stated on the steps of SpecCountStep *)

C25_LedgerGrowsAtTheEnd ==
    [][/\ Len(reports_csv') \in {Len(reports_csv), Len(reports_csv) + 1}
       /\ \A i \in DOMAIN reports_csv :
             /\ reports_csv'[i].date = reports_csv[i].date
             /\ reports_csv'[i].name = reports_csv[i].name
             /\ reports_csv'[i].count = reports_csv[i].count
             /\ reports_csv'[i].tech = reports_csv[i].tech]_vars

====
